---- MODULE Spec2Model ----
(***************************************************************************)
(* Model of src/src/index.ios.tsx, the JavaScript side of                  *)
(* react-native-healthkit: the public operations, the calls they make on   *)
(* the native bridge (Native), and the onQueryUpdated listeners they       *)
(* keep on the shared HealthkitEmitter.                                    *)
(*                                                                         *)
(* Every invocation of a public operation lives in a slot of `calls`.  An  *)
(* `await` on a bridge promise is a pending entry at the end of the slot's *)
(* log; the bridge settles it in a later step (BridgeResolve/BridgeReject) *)
(* and the continuation after the await runs in that same step.            *)
(*                                                                         *)
(* Spec is the subscription life cycle: up to MaxSubs invocations of on()  *)
(* with a unit given, interleaved with one another, with calls of the      *)
(* unsubscribe functions they return and with the events the bridge emits. *)
(* ApiSpec is a single invocation of any one public operation, on() among  *)
(* them, over all its arguments and every answer of the bridge.            *)
(***************************************************************************)
EXTENDS Integers, Sequences, FiniteSets, TLC

\* ------------------------------------------------------------ bounds
MaxSubs == 2        \* invocations of on() in one behaviour of Spec
MaxEvents == 2      \* 'onQueryUpdated' events the bridge emits
MaxUnsub == 2       \* times one unsubscribe function is called
MaxDate == 2        \* timestamps are 0..MaxDate (milliseconds)
MaxListLen == 2     \* length of a permission list

\* ------------------------------------------------------------ values
UNDEFINED == "undefined"                     \* JavaScript's undefined

\* two registered quantity identifiers, and a string that is none
HKQuantityTypeIdentifier == {"stepCount", "heartRate"}
UnknownIdentifier == "notAnIdentifier"
Identifiers == HKQuantityTypeIdentifier \cup {UnknownIdentifier}

HKUnit == {"count", "count/min"}
Errors == {"E_DENIED", "E_UNAVAILABLE"}
Dates == 0..MaxDate

\* an optional argument: <<>> when omitted, <<x>> when given
Opt(S) == {<<>>} \cup {<<x>> : x \in S}

\* `x || y` on values that are strings: the empty string and undefined are falsy
Truthy(v) == v # UNDEFINED /\ v # ""

\* Date.prototype.toISOString and new Date(isoString): a wire string is a
\* tagged value, distinct from the Date it encodes
toISOString(d) == <<"iso", d>>
NewDate(s) == s[2]

RawSamples ==
  { [quantity |-> 1, startDate |-> toISOString(0), endDate |-> toISOString(1)] }
SampleLists == {<<>>} \cup {<<s>> : s \in RawSamples}

EventSamples == SampleLists \ {<<>>}     \* the samples an event carries

deserializeSample(sample) ==
  [sample EXCEPT !.startDate = NewDate(@), !.endDate = NewDate(@)]

\* samples.map(deserializeSample)
deserializeSamples(samples) ==
  [i \in 1..Len(samples) |-> deserializeSample(samples[i])]

\* unit[type] on the object getPreferredUnits resolved with
Lookup(obj, key) == IF key \in DOMAIN obj THEN obj[key] ELSE UNDEFINED

\* what the bridge may answer to getPreferredUnits([type])
PreferredUnitMaps(type) ==
  {<<>>} \cup {[k \in {type} |-> u] : u \in HKUnit}

\* ------------------------------------------------------------ state
VARIABLES
  calls,          \* slot -> the invocation in it
  listeners,      \* slots whose 'onQueryUpdated' listener is on HealthkitEmitter
  cbLog,          \* slot -> every invocation of its callback: which event, what samples
  unsubCalls,     \* slot -> times its unsubscribe function was entered
  stops,          \* slot -> queryIds its unsubscribe passed to Native.stopObserving
  stopsHandled,   \* slot -> how many of those the bridge has processed
  bridgeQueries,  \* queryIds of the observer queries alive in the bridge
  emitted,        \* events emitted so far
  lastEvent,      \* the last event emitted
  effect          \* the run of useLastSample's effect: where init() stands,
                  \* and whether the effect's cleanup has run

vars == <<calls, listeners, cbLog, unsubCalls, stops, stopsHandled,
          bridgeQueries, emitted, lastEvent, effect>>

subVars == <<cbLog, unsubCalls, stops, stopsHandled, emitted, lastEvent, effect>>

Slots == DOMAIN calls

IdleCall ==
  [op |-> "none", pc |-> "idle", identifier |-> UNDEFINED, unit |-> UNDEFINED,
   args |-> <<>>, actualUnit |-> UNDEFINED, queryId |-> 0, result |-> <<>>,
   log |-> <<>>]

NoEvent == [typeIdentifier |-> UNDEFINED, samples |-> <<>>]

\* no component using useLastSample has been rendered
IdleEffect ==
  [pc |-> "unmounted", identifier |-> UNDEFINED, unit |-> UNDEFINED,
   actualUnit |-> UNDEFINED, cleanedUp |-> FALSE, log |-> <<>>]

InitWith(slots) ==
  /\ calls = [c \in slots |-> IdleCall]
  /\ listeners = {}
  /\ cbLog = [c \in slots |-> <<>>]
  /\ unsubCalls = [c \in slots |-> 0]
  /\ stops = [c \in slots |-> <<>>]
  /\ stopsHandled = [c \in slots |-> 0]
  /\ bridgeQueries = {}
  /\ emitted = 0
  /\ lastEvent = NoEvent
  /\ effect = IdleEffect

Init == InitWith(1..MaxSubs)

\* ------------------------------------------------------------ bridge calls
\* a call on Native.<method>: a promise the bridge settles later
NativeCall(method, args) ==
  [method |-> method, args |-> args, outcome |-> "pending", value |-> <<>>]

NativeGetPreferredUnits(identifiers) ==
  NativeCall("getPreferredUnits", [identifiers |-> identifiers])

NativeObserve(identifier, unit) ==
  NativeCall("observe", [identifier |-> identifier, unit |-> unit])

LastCall(call) == call.log[Len(call.log)]

Settle(call, outcome, value) ==
  [call EXCEPT !.log[Len(call.log)].outcome = outcome,
               !.log[Len(call.log)].value = <<value>>]

Issue(call, entry, pc) ==
  [call EXCEPT !.log = Append(@, entry), !.pc = pc]

Start(op, identifier, unit, args) ==
  [IdleCall EXCEPT !.op = op, !.identifier = identifier, !.unit = unit,
                   !.args = args]

Resolved(call, result) == [call EXCEPT !.pc = "resolved", !.result = <<result>>]
Rejected(call, error) == [call EXCEPT !.pc = "rejected", !.result = <<error>>]

\* ------------------------------------------------------------ unit resolution
\* `unit || (await getPreferredUnit(identifier))`: the right operand, and with
\* it the bridge call, is evaluated only when `unit` is falsy
\* (variant: the preferred unit is fetched whether or not a unit was given)
NeedsPreferredUnitAlways(unit) == TRUE
NeedsPreferredUnit(unit) == ~Truthy(unit)

\* getPreferredUnit: `return unit[type]` once Native.getPreferredUnits resolved
PreferredUnitOf(map, type) == Lookup(map, type)

\* ------------------------------------------------------------ HealthkitEmitter
\* HealthkitEmitter.addListener('onQueryUpdated', listener) for invocation c
addListener(ls, c) == ls \cup {c}

\* subscription.remove(): removing a subscription that is no longer registered
\* does nothing
remove(ls, c) == [listeners |-> ls \ {c}, threw |-> FALSE]

\* the listener on() registers: whether it hands the event to the callback
\* (variant: the listener without its typeIdentifier test)
ListenerUnfiltered(identifier, event) == TRUE
ListenerAccepts(identifier, event) == event.typeIdentifier = identifier

\* ------------------------------------------------------------ on
\* line 119-121: register the listener, then await Native.observe
Subscribe(c, call) ==
  /\ listeners' = addListener(listeners, c)
  /\ calls' = [calls EXCEPT ![c] =
       Issue(call, NativeObserve(call.identifier, call.actualUnit), "awaitObserve")]

on(c, identifier, unit) ==
  /\ calls[c].pc = "idle"
  /\ \A b \in Slots : b < c => calls[b].pc # "idle"   \* slots fill in order
  /\ LET call == Start("on", identifier, unit, <<>>) IN
     IF NeedsPreferredUnit(unit)
       THEN /\ calls' = [calls EXCEPT ![c] =
                 Issue(call, NativeGetPreferredUnits(<<identifier>>),
                       "awaitPreferredUnits")]
            /\ UNCHANGED listeners
       ELSE Subscribe(c, [call EXCEPT !.actualUnit = unit])
  /\ UNCHANGED <<subVars, bridgeQueries>>

\* the .catch handler of line 121-126
\* (variant: the handler rejects without subscription.remove())
KeepListenerOnReject(c, error) ==
  /\ calls' = [calls EXCEPT ![c] = Rejected(Settle(@, "rejected", error), error)]
  /\ UNCHANGED listeners
ObserveRejected(c, error) ==
  /\ listeners' = remove(listeners, c).listeners
  /\ calls' = [calls EXCEPT ![c] = Rejected(Settle(@, "rejected", error), error)]

\* line 121, 127: observe resolved with queryId; on() returns the unsubscribe
\* function closing over subscription and queryId
ObserveResolved(c, queryId) ==
  /\ calls' = [calls EXCEPT ![c] =
       Resolved([Settle(@, "resolved", queryId) EXCEPT !.queryId = queryId],
                "unsubscribe")]
  /\ UNCHANGED listeners

\* the function on() returned (line 127-130), called once more
\* (variants: one that leaves the listener registered, one that passes
\* stopObserving another queryId than its own)
UnsubscribeKeepsListener(c) ==
  /\ calls[c].op = "on" /\ calls[c].pc = "resolved"
  /\ unsubCalls[c] < MaxUnsub
  /\ unsubCalls' = [unsubCalls EXCEPT ![c] = @ + 1]
  /\ stops' = [stops EXCEPT ![c] = Append(@, calls[c].queryId)]
  /\ UNCHANGED <<calls, listeners, cbLog, stopsHandled, bridgeQueries, emitted,
                 lastEvent, effect>>
UnsubscribeWrongQuery(c) ==
  LET r == remove(listeners, c) IN
  /\ calls[c].op = "on" /\ calls[c].pc = "resolved"
  /\ unsubCalls[c] < MaxUnsub
  /\ unsubCalls' = [unsubCalls EXCEPT ![c] = @ + 1]
  /\ listeners' = r.listeners
  /\ stops' = [stops EXCEPT ![c] = Append(@, calls[c].queryId + 1)]
  /\ UNCHANGED <<calls, cbLog, stopsHandled, bridgeQueries, emitted, lastEvent,
                 effect>>
Unsubscribe(c) ==
  LET r == remove(listeners, c) IN
  /\ calls[c].op = "on" /\ calls[c].pc = "resolved"
  /\ unsubCalls[c] < MaxUnsub
  /\ unsubCalls' = [unsubCalls EXCEPT ![c] = @ + 1]
  /\ listeners' = r.listeners
  /\ stops' = IF r.threw THEN stops
              ELSE [stops EXCEPT ![c] = Append(@, calls[c].queryId)]
  /\ UNCHANGED <<calls, cbLog, stopsHandled, bridgeQueries, emitted, lastEvent,
                 effect>>

\* ------------------------------------------------------------ the bridge
\* the queryId the bridge hands out for the observe call of invocation c: every
\* query gets an id of its own, named here after the invocation that asked
NewQueryId(c) == c

\* Native.observe settles: the bridge starts an observer query and resolves
\* with its queryId, or rejects
BridgeObserve(c) ==
  /\ calls[c].pc = "awaitObserve"
  /\ \/ /\ ObserveResolved(c, NewQueryId(c))
        /\ bridgeQueries' = bridgeQueries \cup {NewQueryId(c)}
     \/ /\ \E error \in Errors : ObserveRejected(c, error)
        /\ UNCHANGED bridgeQueries
  /\ UNCHANGED subVars

\* Native.stopObserving(queryId) reaches the bridge: that query, if alive, ends
BridgeStopObserving(c) ==
  /\ stopsHandled[c] < Len(stops[c])
  /\ bridgeQueries' = bridgeQueries \ {stops[c][stopsHandled[c] + 1]}
  /\ stopsHandled' = [stopsHandled EXCEPT ![c] = @ + 1]
  /\ UNCHANGED <<calls, listeners, cbLog, unsubCalls, stops, emitted, lastEvent,
                 effect>>

\* the bridge emits 'onQueryUpdated': HealthkitEmitter calls every registered
\* listener with the event (line 108-118)
Emit(typeIdentifier, samples) ==
  LET event == [typeIdentifier |-> typeIdentifier, samples |-> samples] IN
  /\ emitted < MaxEvents
  /\ emitted' = emitted + 1
  /\ lastEvent' = event
  /\ cbLog' = [c \in Slots |->
       IF c \in listeners /\ ListenerAccepts(calls[c].identifier, event)
         THEN Append(cbLog[c], [event |-> emitted + 1,
                                samples |-> deserializeSamples(samples)])
         ELSE cbLog[c]]
  /\ UNCHANGED <<calls, listeners, unsubCalls, stops, stopsHandled,
                 bridgeQueries, effect>>

\* ------------------------------------------------------------ Native methods
\* the methods of ReactNativeHealthkitTypeNative (line 22-71), each with its
\* parameters in the declared order
NativeGetLastSamples(identifier, limit, unit) ==
  NativeCall("getLastSamples",
             [identifier |-> identifier, limit |-> limit, unit |-> unit])

NativeGetSamplesBetween(identifier, unit, from, to) ==
  NativeCall("getSamplesBetween",
             [identifier |-> identifier, unit |-> unit, from |-> from, to |-> to])

NativeGetStatsBetween(identifier, unit, from, to, options) ==
  NativeCall("getStatsBetween",
             [identifier |-> identifier, unit |-> unit, from |-> from, to |-> to,
              options |-> options])

NativeSave(identifier, unit, value, start, end, metadata) ==
  NativeCall("save",
             [identifier |-> identifier, unit |-> unit, value |-> value,
              start |-> start, end |-> end, metadata |-> metadata])

NativeRequestAuthorization(write, read) ==
  NativeCall("requestAuthorization", [write |-> write, read |-> read])

NativeGetRequestStatusForAuthorization(write, read) ==
  NativeCall("getRequestStatusForAuthorization", [write |-> write, read |-> read])

NativeGetDateOfBirth == NativeCall("getDateOfBirth", <<>>)

\* ------------------------------------------------------------ JavaScript objects
\* an object literal is its own properties in insertion order: <<key, value>> pairs
Keys(obj) == {obj[i][1] : i \in DOMAIN obj}

\* { ...obj, [key]: value }: an own key keeps its place and takes the new value,
\* a new key goes last
SpreadSet(obj, key, value) ==
  IF key \in Keys(obj)
    THEN [i \in DOMAIN obj |-> IF obj[i][1] = key THEN <<key, value>> ELSE obj[i]]
    ELSE Append(obj, <<key, value>>)

\* Array.prototype.reduce of line 236-238 (and 240, 271, 275), left to right
RECURSIVE ReduceFrom(_, _)
ReduceFrom(list, obj) ==
  IF list = <<>> THEN obj
  ELSE ReduceFrom(Tail(list), SpreadSet(obj, Head(list), TRUE))

\* read.reduce((obj, cur) => ({ ...obj, [cur]: true }), {})
\* (variant: the reduce without the spread, keeping the last identifier only)
FlattenLastOnly(list) ==
  IF list = <<>> THEN <<>> ELSE << <<list[Len(list)], TRUE>> >>
flatten(list) == ReduceFrom(list, <<>>)

\* a parameter with a default value: `write = []`, `limit = 1`, `to = new Date()`
Default(arg, value) == IF arg = <<>> THEN value ELSE arg[1]

\* ------------------------------------------------------------ save
\* options?.start, options?.end, options?.metadata
OptionOf(options, field) ==
  IF options = <<>> THEN <<>> ELSE options[1][field]

\* line 183: options?.start || options?.end || new Date()
\* (variant: options?.start || new Date())
SaveStartNoFallback(options, now) ==
  IF OptionOf(options, "start") # <<>> THEN OptionOf(options, "start")[1]
  ELSE now
SaveStart(options, now) ==
  IF OptionOf(options, "start") # <<>> THEN OptionOf(options, "start")[1]
  ELSE IF OptionOf(options, "end") # <<>> THEN OptionOf(options, "end")[1]
  ELSE now

\* line 184: options?.end || options?.start || new Date()
SaveEnd(options, now) ==
  IF OptionOf(options, "end") # <<>> THEN OptionOf(options, "end")[1]
  ELSE IF OptionOf(options, "start") # <<>> THEN OptionOf(options, "start")[1]
  ELSE now

\* line 185: options?.metadata || {}
SaveMetadata(options) ==
  IF OptionOf(options, "metadata") # <<>> THEN OptionOf(options, "metadata")[1]
  ELSE <<>>

\* ------------------------------------------------------------ statistics
IntervalKey == "mostRecentQuantityDateInterval"

\* line 206-229: the interval, when the response has one, with its dates parsed
NormalizeStats(raw) ==
  IF IntervalKey \in DOMAIN raw
    THEN [k \in DOMAIN raw |->
           IF k = IntervalKey
             THEN [from |-> NewDate(raw[k].from), to |-> NewDate(raw[k].to)]
             ELSE raw[k]]
    ELSE raw

StatsResponses ==
  { ("sumQuantity" :> 1),
    ("sumQuantity" :> 1) @@
      (IntervalKey :> [from |-> toISOString(0), to |-> toISOString(1)]) }

\* ------------------------------------------------------------ operations
\* the bridge call an operation makes once it has its unit
MainCall(call, now) ==
  CASE call.op = "getLastSamples" ->
         NativeGetLastSamples(call.identifier, call.args.limit, call.actualUnit)
    [] call.op = "getLastSample" ->
         NativeGetLastSamples(call.identifier, 1, call.actualUnit)
    [] call.op = "getStatsBetween" ->
         NativeGetStatsBetween(call.identifier, call.actualUnit,
                               toISOString(call.args.from),
                               toISOString(Default(call.args.to, now)),
                               call.args.options)

\* what runs after `let actualUnit = unit || (await getPreferredUnit(identifier))`
AfterUnit(call, now) ==
  IF call.op = "getPreferredUnit" THEN Resolved(call, call.actualUnit)
  ELSE Issue(call, MainCall(call, now), "awaitNative")

\* what an operation returns once its bridge call resolved with `value`
Finish(call, value) ==
  CASE call.op \in {"getLastSamples", "getSamplesBetween"} ->
         deserializeSamples(value)
    [] call.op = "getLastSample" ->
         IF value = <<>> THEN UNDEFINED ELSE deserializeSample(value[1])
    [] call.op = "getStatsBetween" -> NormalizeStats(value)
    [] call.op = "getDateOfBirth" -> NewDate(value)
    [] OTHER -> value

\* an operation with `unit?: HKUnit` starts: line 97, 107, 204
StartWithUnit(c, call, now) ==
  IF NeedsPreferredUnit(call.unit)
    THEN /\ calls' = [calls EXCEPT ![c] =
              Issue(call, NativeGetPreferredUnits(<<call.identifier>>),
                    "awaitPreferredUnits")]
         /\ UNCHANGED listeners
    ELSE /\ calls' = [calls EXCEPT ![c] =
              AfterUnit([call EXCEPT !.actualUnit = call.unit], now)]
         /\ UNCHANGED listeners

getLastSamples(c, identifier, limit, unit) ==
  /\ calls[c].pc = "idle"
  /\ StartWithUnit(c, Start("getLastSamples", identifier, unit,
                            [limit |-> Default(limit, 1)]), 0)
  /\ UNCHANGED <<subVars, bridgeQueries>>

getLastSample(c, identifier, unit) ==
  /\ calls[c].pc = "idle"
  /\ StartWithUnit(c, Start("getLastSample", identifier, unit, <<>>), 0)
  /\ UNCHANGED <<subVars, bridgeQueries>>

getStatsBetween(c, identifier, options, from, to, unit, now) ==
  /\ calls[c].pc = "idle"
  /\ StartWithUnit(c, Start("getStatsBetween", identifier, unit,
                            [options |-> options, from |-> from, to |-> to]), now)
  /\ UNCHANGED <<subVars, bridgeQueries>>

getPreferredUnit(c, type) ==
  /\ calls[c].pc = "idle"
  /\ calls' = [calls EXCEPT ![c] =
       Issue(Start("getPreferredUnit", type, UNDEFINED, <<>>),
             NativeGetPreferredUnits(<<type>>), "awaitPreferredUnits")]
  /\ UNCHANGED <<listeners, subVars, bridgeQueries>>

getSamplesBetween(c, identifier, unit, from, to, now) ==
  /\ calls[c].pc = "idle"
  /\ calls' = [calls EXCEPT ![c] =
       Issue(Start("getSamplesBetween", identifier, unit,
                   [from |-> from, to |-> to]),
             NativeGetSamplesBetween(identifier, unit, toISOString(from),
                                     toISOString(Default(to, now))),
             "awaitNative")]
  /\ UNCHANGED <<listeners, subVars, bridgeQueries>>

\* new Date() is read for start (now1) and then for end (now2)
\* (variant: save checking the identifier before it calls the bridge)
saveRejectsUnknown(c, identifier, unit, value, options, now1, now2) ==
  /\ calls[c].pc = "idle"
  /\ calls' = [calls EXCEPT ![c] =
       IF identifier \in HKQuantityTypeIdentifier
         THEN Issue(Start("save", identifier, unit,
                          [value |-> value, options |-> options]),
                    NativeSave(identifier, unit, value,
                               toISOString(SaveStart(options, now1)),
                               toISOString(SaveEnd(options, now2)),
                               SaveMetadata(options)),
                    "awaitNative")
         ELSE Rejected(Start("save", identifier, unit,
                             [value |-> value, options |-> options]),
                       "E_UNKNOWN_IDENTIFIER")]
  /\ UNCHANGED <<listeners, subVars, bridgeQueries>>
save(c, identifier, unit, value, options, now1, now2) ==
  /\ calls[c].pc = "idle"
  /\ calls' = [calls EXCEPT ![c] =
       Issue(Start("save", identifier, unit,
                   [value |-> value, options |-> options]),
             NativeSave(identifier, unit, value,
                        toISOString(SaveStart(options, now1)),
                        toISOString(SaveEnd(options, now2)),
                        SaveMetadata(options)),
             "awaitNative")]
  /\ UNCHANGED <<listeners, subVars, bridgeQueries>>

\* line 232-245 (variant: the two maps passed in the other order)
requestAuthorizationSwapped(c, read, write) ==
  LET readPermissions == flatten(read)
      writePermissions == flatten(Default(write, <<>>)) IN
  /\ calls[c].pc = "idle"
  /\ calls' = [calls EXCEPT ![c] =
       Issue(Start("requestAuthorization", UNDEFINED, UNDEFINED,
                   [read |-> read, write |-> write]),
             NativeRequestAuthorization(readPermissions, writePermissions),
             "awaitNative")]
  /\ UNCHANGED <<listeners, subVars, bridgeQueries>>
requestAuthorization(c, read, write) ==
  LET readPermissions == flatten(read)
      writePermissions == flatten(Default(write, <<>>)) IN
  /\ calls[c].pc = "idle"
  /\ calls' = [calls EXCEPT ![c] =
       Issue(Start("requestAuthorization", UNDEFINED, UNDEFINED,
                   [read |-> read, write |-> write]),
             NativeRequestAuthorization(writePermissions, readPermissions),
             "awaitNative")]
  /\ UNCHANGED <<listeners, subVars, bridgeQueries>>

getRequestStatusForAuthorization(c, read, write) ==
  LET readPermissions == flatten(read)
      writePermissions == flatten(Default(write, <<>>)) IN
  /\ calls[c].pc = "idle"
  /\ calls' = [calls EXCEPT ![c] =
       Issue(Start("getRequestStatusForAuthorization", UNDEFINED, UNDEFINED,
                   [read |-> read, write |-> write]),
             NativeGetRequestStatusForAuthorization(writePermissions,
                                                    readPermissions),
             "awaitNative")]
  /\ UNCHANGED <<listeners, subVars, bridgeQueries>>

getDateOfBirth(c) ==
  /\ calls[c].pc = "idle"
  /\ calls' = [calls EXCEPT ![c] =
       Issue(Start("getDateOfBirth", UNDEFINED, UNDEFINED, <<>>),
             NativeGetDateOfBirth, "awaitNative")]
  /\ UNCHANGED <<listeners, subVars, bridgeQueries>>

\* ------------------------------------------------------------ the bridge answers
HKAuthorizationRequestStatus == {"unknown", "shouldRequest", "unnecessary"}

\* what the bridge may resolve a call of `method` with
Responses(method) ==
  CASE method \in {"getLastSamples", "getSamplesBetween"} -> SampleLists
    [] method = "getStatsBetween" -> StatsResponses
    [] method \in {"save", "requestAuthorization"} -> BOOLEAN
    [] method = "getRequestStatusForAuthorization" -> HKAuthorizationRequestStatus
    [] method = "getDateOfBirth" -> {toISOString(d) : d \in Dates}

\* the awaited getPreferredUnit rejected: the await throws and the operation's
\* promise rejects with the same error
\* (variant: the rejection is swallowed and the operation goes on)
PreferredUnitsRejectedContinues(call, error) ==
  IF call.op = "on" THEN Rejected(Settle(call, "rejected", error), error)
  ELSE AfterUnit(Settle(call, "rejected", error), 0)
PreferredUnitsRejected(call, error) ==
  Rejected(Settle(call, "rejected", error), error)

\* getPreferredUnit (line 75-78) resolved inside the operation awaiting it
PreferredUnitsResolved(c, map, now) ==
  LET call == [Settle(calls[c], "resolved", map) EXCEPT
                 !.actualUnit = PreferredUnitOf(map, calls[c].identifier)] IN
  IF call.op = "on" THEN Subscribe(c, call)
  ELSE /\ calls' = [calls EXCEPT ![c] = AfterUnit(call, now)]
       /\ UNCHANGED listeners

\* Native.getPreferredUnits settles
BridgeGetPreferredUnits(c) ==
  /\ calls[c].pc = "awaitPreferredUnits"
  /\ \/ \E map \in PreferredUnitMaps(calls[c].identifier), now \in Dates :
          PreferredUnitsResolved(c, map, now)
     \/ \E error \in Errors :
          /\ calls' = [calls EXCEPT ![c] = PreferredUnitsRejected(@, error)]
          /\ UNCHANGED listeners
  /\ UNCHANGED <<subVars, bridgeQueries>>

\* the bridge call of a query, save or authorization operation settles
BridgeQuery(c) ==
  /\ calls[c].pc = "awaitNative"
  /\ \/ \E value \in Responses(LastCall(calls[c]).method) :
          calls' = [calls EXCEPT ![c] =
            Resolved(Settle(@, "resolved", value), Finish(@, value))]
     \/ \E error \in Errors :
          calls' = [calls EXCEPT ![c] =
            Rejected(Settle(@, "rejected", error), error)]
  /\ UNCHANGED <<listeners, subVars, bridgeQueries>>

UnitArgs == HKUnit \cup {UNDEFINED}

Next ==
  \/ \E c \in Slots, identifier \in HKQuantityTypeIdentifier,
          unit \in {"count"} :
       on(c, identifier, unit)
  \/ \E c \in Slots : BridgeObserve(c)
  \/ \E c \in Slots : Unsubscribe(c)
  \/ \E c \in Slots : BridgeStopObserving(c)
  \/ \E typeIdentifier \in HKQuantityTypeIdentifier, samples \in EventSamples :
       Emit(typeIdentifier, samples)

Spec == Init /\ [][Next]_vars

\* ------------------------------------------------------------ one operation
\* a single invocation of any public operation, with every argument it takes
PermissionIds == HKQuantityTypeIdentifier \cup {"dateOfBirth"}

RECURSIVE ListsUpTo(_, _)
ListsUpTo(S, n) ==
  IF n = 0 THEN {<<>>}
  ELSE LET shorter == ListsUpTo(S, n - 1) IN
       shorter \cup {Append(l, x) : l \in shorter, x \in S}

ReadLists == ListsUpTo(PermissionIds, MaxListLen)
WriteLists == ListsUpTo(HKQuantityTypeIdentifier, MaxListLen)

SaveOptions ==
  Opt([start : Opt(Dates), end : Opt(Dates), metadata : Opt({"meta"})])

ApiInit == InitWith({1})

ApiNext ==
  \/ \E identifier \in Identifiers, unit \in UnitArgs : on(1, identifier, unit)
  \/ \E identifier \in Identifiers, limit \in Opt({2}), unit \in UnitArgs :
       getLastSamples(1, identifier, limit, unit)
  \/ \E identifier \in Identifiers, unit \in UnitArgs :
       getLastSample(1, identifier, unit)
  \/ \E identifier \in Identifiers, from \in Dates, to \in Opt(Dates),
          unit \in UnitArgs, now \in Dates :
       getStatsBetween(1, identifier, <<"cumulativeSum">>, from, to, unit, now)
  \/ \E identifier \in Identifiers, unit \in HKUnit, from \in Dates,
          to \in Opt(Dates), now \in Dates :
       getSamplesBetween(1, identifier, unit, from, to, now)
  \/ \E identifier \in Identifiers, unit \in HKUnit, options \in SaveOptions,
          now1 \in Dates, now2 \in Dates :
       now1 <= now2 /\ save(1, identifier, unit, 7, options, now1, now2)
  \/ \E read \in ReadLists, write \in Opt(WriteLists) :
       requestAuthorization(1, read, write)
  \/ \E read \in ReadLists, write \in Opt(WriteLists) :
       getRequestStatusForAuthorization(1, read, write)
  \/ getDateOfBirth(1)
  \/ \E type \in Identifiers : getPreferredUnit(1, type)
  \/ BridgeGetPreferredUnits(1)
  \/ BridgeObserve(1)
  \/ BridgeQuery(1)

ApiSpec == ApiInit /\ [][ApiNext]_vars

\* ------------------------------------------------------------ useLastSample
\* one run of the effect of useLastSample (line 144-168): init() makes one
\* invocation of on() and one of getLastSample(), each in a slot of its own
OnSlot == 1       \* the on() of line 152
SampleSlot == 2   \* the getLastSample() of line 150

NULL == "null"

\* on(identifier, callback, unit) run up to its first await (line 107-121)
OnEntered(identifier, unit) ==
  LET call == Start("on", identifier, unit, <<>>) IN
  IF NeedsPreferredUnit(unit)
    THEN Issue(call, NativeGetPreferredUnits(<<identifier>>),
               "awaitPreferredUnits")
    ELSE Issue([call EXCEPT !.actualUnit = unit],
               NativeObserve(identifier, unit), "awaitObserve")

\* getLastSample(identifier, unit) run up to its first await (line 137, 97-98)
GetLastSampleEntered(identifier, unit) ==
  LET call == Start("getLastSample", identifier, unit, <<>>) IN
  IF NeedsPreferredUnit(unit)
    THEN Issue(call, NativeGetPreferredUnits(<<identifier>>),
               "awaitPreferredUnits")
    ELSE AfterUnit([call EXCEPT !.actualUnit = unit], 0)

\* init() from line 150 to the await of line 152: getLastSample is called and
\* not awaited, then on() is called and awaited; on() registers its listener
\* at once when it is handed a unit
InitWithUnit(e, actualUnit) ==
  /\ effect' = [e EXCEPT !.actualUnit = actualUnit, !.pc = "awaitOn"]
  /\ calls' = [calls EXCEPT
       ![SampleSlot] = GetLastSampleEntered(e.identifier, actualUnit),
       ![OnSlot] = OnEntered(e.identifier, actualUnit)]
  /\ listeners' = IF NeedsPreferredUnit(actualUnit) THEN listeners
                  ELSE addListener(listeners, OnSlot)

\* the component renders and its effect runs (line 144-161): init() is called
\* and runs up to its first await
useLastSample(identifier, unit) ==
  /\ effect.pc = "unmounted"
  /\ LET e == [IdleEffect EXCEPT !.identifier = identifier, !.unit = unit] IN
     IF NeedsPreferredUnit(unit)
       THEN /\ effect' = Issue(e, NativeGetPreferredUnits(<<identifier>>),
                               "awaitPreferredUnit")
            /\ UNCHANGED <<calls, listeners>>
       ELSE InitWithUnit(e, unit)
  /\ UNCHANGED <<cbLog, unsubCalls, stops, stopsHandled, bridgeQueries,
                 emitted, lastEvent>>

\* the getPreferredUnit awaited on line 148 settles: init() goes on with the
\* unit it resolved with, or rejects; it does not look at whether the cleanup
\* has run
EffectGetPreferredUnits ==
  /\ effect.pc = "awaitPreferredUnit"
  /\ \/ \E map \in PreferredUnitMaps(effect.identifier) :
          InitWithUnit(Settle(effect, "resolved", map),
                       PreferredUnitOf(map, effect.identifier))
     \/ \E error \in Errors :
          /\ effect' = [Settle(effect, "rejected", error) EXCEPT
                          !.pc = "rejected"]
          /\ UNCHANGED <<calls, listeners>>
  /\ UNCHANGED <<cbLog, unsubCalls, stops, stopsHandled, bridgeQueries,
                 emitted, lastEvent>>

\* the effect's variable cancelSubscription (line 145, 152): null until the
\* awaited on() has resolved, from then on the function on() returned; the
\* assignment runs in the same turn as the resolution of on()
cancelSubscription ==
  IF effect.pc = "awaitOn" /\ calls[OnSlot].pc = "resolved"
    THEN calls[OnSlot].result[1]
    ELSE NULL

\* the cleanup the effect returned (line 163-167), run by React on unmount or
\* before the effect runs again: calls cancelSubscription if it is set
Cleanup ==
  LET r == remove(listeners, OnSlot) IN
  /\ effect.pc # "unmounted"
  /\ ~effect.cleanedUp
  /\ effect' = [effect EXCEPT !.cleanedUp = TRUE]
  /\ IF cancelSubscription # NULL
       THEN /\ unsubCalls' = [unsubCalls EXCEPT ![OnSlot] = @ + 1]
            /\ listeners' = r.listeners
            /\ stops' = IF r.threw THEN stops
                        ELSE [stops EXCEPT
                                ![OnSlot] = Append(@, calls[OnSlot].queryId)]
       ELSE UNCHANGED <<unsubCalls, listeners, stops>>
  /\ UNCHANGED <<calls, cbLog, stopsHandled, bridgeQueries, emitted, lastEvent>>

HookInit == InitWith({OnSlot, SampleSlot})

HookNext ==
  \/ \E identifier \in HKQuantityTypeIdentifier, unit \in UnitArgs :
       useLastSample(identifier, unit)
  \/ EffectGetPreferredUnits
  \/ \E c \in Slots : BridgeGetPreferredUnits(c)
  \/ BridgeObserve(OnSlot)
  \/ BridgeQuery(SampleSlot)
  \/ Cleanup
  \/ BridgeStopObserving(OnSlot)
  \/ \E typeIdentifier \in HKQuantityTypeIdentifier, samples \in EventSamples :
       Emit(typeIdentifier, samples)

HookSpec == HookInit /\ [][HookNext]_vars

\* ------------------------------------------------------------ claims on Spec
ObserveFailed(c) ==
  /\ calls[c].op = "on"
  /\ calls[c].log # <<>>
  /\ LastCall(calls[c]).method = "observe"
  /\ LastCall(calls[c]).outcome = "rejected"

\* C1: once Native.observe has rejected, on() has rejected with the bridge's
\* error, has returned no unsubscribe function, and its listener is off the
\* emitter.
C1_ObserveRejectRemovesListener ==
  \A c \in Slots :
    ObserveFailed(c) =>
      /\ c \notin listeners
      /\ calls[c].pc = "rejected"
      /\ calls[c].result = LastCall(calls[c]).value
      /\ unsubCalls[c] = 0

\* an on() whose observe was rejected, while another subscription's listener
\* stays registered and an event has been emitted since
C1_Witness ==
  \E c, d \in Slots :
    /\ ObserveFailed(c) /\ calls[c].result = <<"E_DENIED">>
    /\ d # c /\ d \in listeners /\ calls[d].identifier = calls[c].identifier
    /\ cbLog[d] # <<>> /\ cbLog[c] = <<>>

\* C2: every call of an unsubscribe function runs to its return statement (it
\* issues its stopObserving call: nothing threw), the second and later calls
\* included, and from the first call on no event invokes the callback.
C2_UnsubscribeTwiceQuiet ==
  [][ \A c \in Slots :
        /\ Len(stops'[c]) = unsubCalls'[c]
        /\ unsubCalls[c] >= 1 => cbLog'[c] = cbLog[c] ]_vars

\* unsubscribed twice; the first event was delivered, the second, of the same
\* identifier, was not
C2_Witness ==
  \E c \in Slots :
    /\ unsubCalls[c] = 2 /\ Len(stops[c]) = 2
    /\ emitted = 2 /\ lastEvent.typeIdentifier = calls[c].identifier
    /\ Len(cbLog[c]) = 1 /\ cbLog[c][1].event = 1

\* C3: a call of the unsubscribe function of invocation c removes c's listener
\* and no other, passes to stopObserving the queryId c's observe resolved with
\* and no other, and leaves every invocation, every callback log and every
\* bridge query as it was.
C3_UnsubscribeExactlyOwn ==
  [][ \A c \in Slots :
        unsubCalls'[c] = unsubCalls[c] + 1 =>
             /\ listeners' = listeners \ {c}
             /\ calls[c].queryId = LastCall(calls[c]).value[1]
             /\ stops'[c] = Append(stops[c], calls[c].queryId)
             /\ \A d \in Slots \ {c} : stops'[d] = stops[d]
             /\ bridgeQueries' = bridgeQueries
             /\ calls' = calls
             /\ cbLog' = cbLog ]_vars

\* two subscriptions on one identifier; one was unsubscribed and its query
\* ended, the other is still registered on both sides
C3_Witness ==
  \E c, d \in Slots :
    /\ c # d /\ calls[c].identifier = calls[d].identifier
    /\ calls[c].pc = "resolved" /\ calls[d].pc = "resolved"
    /\ unsubCalls[c] >= 1 /\ stopsHandled[c] >= 1
    /\ c \notin listeners /\ calls[c].queryId \notin bridgeQueries
    /\ d \in listeners /\ calls[d].queryId \in bridgeQueries

\* C4: an emitted event invokes the callback of a registered listener exactly
\* once, with the event's samples deserialized, when its typeIdentifier is the
\* subscription's identifier, and not at all when it is another.
C4_EventFilteredByIdentifier ==
  [][ emitted' = emitted + 1 =>
        \A c \in listeners :
          cbLog'[c] =
            IF lastEvent'.typeIdentifier = calls[c].identifier
              THEN Append(cbLog[c],
                     [event |-> emitted',
                      samples |-> deserializeSamples(lastEvent'.samples)])
              ELSE cbLog[c] ]_vars

\* two registered listeners on different identifiers; one event of each
\* identifier has been emitted and each callback ran for its own only
C4_Witness ==
  \E c, d \in Slots :
    /\ c \in listeners /\ d \in listeners
    /\ calls[c].identifier # calls[d].identifier
    /\ emitted = 2
    /\ Len(cbLog[c]) = 1 /\ cbLog[c][1].event = 1
    /\ cbLog[c][1].samples[1].startDate = 0
    /\ Len(cbLog[d]) = 1 /\ cbLog[d][1].event = 2

\* ------------------------------------------------------------ claims on ApiSpec
UnitOps == {"getLastSamples", "getLastSample", "on", "getStatsBetween"}

PreferredCalls(call) ==
  {i \in DOMAIN call.log : call.log[i].method = "getPreferredUnits"}

UnitCalls(call) ==
  {i \in DOMAIN call.log :
     call.log[i].method \in {"getLastSamples", "observe", "getStatsBetween"}}

\* C5: with a unit supplied the operation never calls getPreferredUnits and its
\* bridge call carries that unit; with the unit omitted its first and only
\* getPreferredUnits call asks for its identifier alone, and the bridge call
\* that follows carries the unit the answer holds for that identifier.
C5_UnitResolution ==
  \A c \in Slots :
    LET call == calls[c] IN
    call.op \in UnitOps =>
      IF call.unit # UNDEFINED
        THEN /\ PreferredCalls(call) = {}
             /\ UnitCalls(call) = {1}
             /\ call.log[1].args.unit = call.unit
        ELSE /\ PreferredCalls(call) = {1}
             /\ call.log[1].args.identifiers = <<call.identifier>>
             /\ UnitCalls(call) =
                  IF call.log[1].outcome = "resolved" THEN {2} ELSE {}
             /\ \A i \in UnitCalls(call) :
                  call.log[i].args.unit =
                    Lookup(call.log[1].value[1], call.identifier)

\* getStatsBetween without a unit: the bridge reported count/min and the
\* statistics call carries it
C5_Witness ==
  /\ calls[1].op = "getStatsBetween" /\ calls[1].unit = UNDEFINED
  /\ Len(calls[1].log) = 2
  /\ calls[1].log[2].method = "getStatsBetween"
  /\ calls[1].log[2].args.unit = "count/min"

Range(list) == {list[i] : i \in DOMAIN list}
PresenceMap(S) == [k \in S |-> TRUE]
AsMap(obj) ==
  [k \in Keys(obj) |-> obj[CHOOSE i \in DOMAIN obj : obj[i][1] = k][2]]

\* C6: requestAuthorization makes one bridge call, whose read parameter is the
\* presence-map of the read list and whose write parameter is the presence-map
\* of the write list (empty when omitted), and resolves to what the bridge
\* resolved with.
C6_RequestAuthorizationDispatch ==
  \A c \in Slots :
    LET call == calls[c] IN
    call.op = "requestAuthorization" =>
      /\ Len(call.log) = 1
      /\ call.log[1].method = "requestAuthorization"
      /\ AsMap(call.log[1].args.read) = PresenceMap(Range(call.args.read))
      /\ AsMap(call.log[1].args.write) =
           PresenceMap(Range(Default(call.args.write, <<>>)))
      /\ call.log[1].outcome = "resolved" =>
           call.pc = "resolved" /\ call.result = call.log[1].value

\* requestAuthorization([dateOfBirth, stepCount], [heartRate]) resolved false
C6_Witness ==
  /\ calls[1].op = "requestAuthorization"
  /\ calls[1].args.read = <<"dateOfBirth", "stepCount">>
  /\ calls[1].args.write = << <<"heartRate">> >>
  /\ calls[1].pc = "resolved" /\ calls[1].result = <<FALSE>>

Count(list, x) == Cardinality({i \in DOMAIN list : list[i] = x})
Reorderings(list) ==
  {p \in ReadLists :
     Len(p) = Len(list) /\ \A x \in PermissionIds : Count(p, x) = Count(list, x)}

Flattened(list, obj) ==
  /\ Keys(obj) = Range(list)
  /\ \A i \in DOMAIN obj : obj[i][2] = TRUE
  /\ Len(obj) = Cardinality(Range(list))
  /\ list = <<>> => obj = <<>>
  /\ \A p \in Reorderings(list) : AsMap(flatten(p)) = AsMap(obj)

\* C7: the object the reduce builds from a list has the list's identifiers as
\* its keys, each once and each true; it is empty for the empty list and, as a
\* map, the same for every permutation of the list.
C7_FlattenIsPresenceMap ==
  \A c \in Slots :
    LET call == calls[c] IN
    call.op \in {"requestAuthorization", "getRequestStatusForAuthorization"} =>
      /\ Flattened(call.args.read, call.log[1].args.read)
      /\ Flattened(Default(call.args.write, <<>>), call.log[1].args.write)

\* getRequestStatusForAuthorization([heartRate, stepCount], [stepCount, stepCount])
C7_Witness ==
  /\ calls[1].op = "getRequestStatusForAuthorization"
  /\ calls[1].args.read = <<"heartRate", "stepCount">>
  /\ calls[1].args.write = << <<"stepCount", "stepCount">> >>
  /\ calls[1].log[1].args.write = << <<"stepCount", TRUE>> >>
  /\ calls[1].pc = "resolved"

\* C8: a bridge call that rejected is the last bridge call its operation made,
\* and the operation has rejected with the error of that call.
C8_RejectionPropagates ==
  \A c \in Slots :
    \A i \in DOMAIN calls[c].log :
      calls[c].log[i].outcome = "rejected" =>
        /\ i = Len(calls[c].log)
        /\ calls[c].pc = "rejected"
        /\ calls[c].result = calls[c].log[i].value

\* getLastSample without a unit: getPreferredUnits rejected and nothing followed
C8_Witness ==
  /\ calls[1].op = "getLastSample" /\ calls[1].unit = UNDEFINED
  /\ Len(calls[1].log) = 1
  /\ calls[1].log[1].outcome = "rejected"
  /\ calls[1].result = <<"E_UNAVAILABLE">>

IdentifierOps ==
  {"getLastSamples", "getLastSample", "getSamplesBetween", "getStatsBetween",
   "save", "on", "getPreferredUnit"}

EntryIdentifier(entry) ==
  IF entry.method = "getPreferredUnits" THEN entry.args.identifiers[1]
  ELSE entry.args.identifier

\* C9 as claimed: an operation called with an identifier that is not
\* registered is rejected and makes no bridge call.
C9_UnknownIdentifierRejectedLocally ==
  \A c \in Slots :
    (calls[c].op \in IdentifierOps
       /\ calls[c].identifier \notin HKQuantityTypeIdentifier) =>
      calls[c].log = <<>> /\ calls[c].pc = "rejected"

\* C9 as amended: an operation called with an identifier that is not
\* registered checks nothing itself: it makes its bridge calls with that
\* identifier unchanged, and it rejects only when the bridge rejected its last
\* call, with the bridge's error.
C9_UnknownIdentifierForwarded ==
  \A c \in Slots :
    LET call == calls[c] IN
    (call.op \in IdentifierOps
       /\ call.identifier \notin HKQuantityTypeIdentifier) =>
      /\ call.log # <<>>
      /\ \A i \in DOMAIN call.log : EntryIdentifier(call.log[i]) = call.identifier
      /\ call.pc = "rejected" =>
           /\ LastCall(call).outcome = "rejected"
           /\ call.result = LastCall(call).value

\* save of an identifier that is not registered went to the bridge, which
\* resolved it
C9_Witness ==
  /\ calls[1].op = "save" /\ calls[1].identifier = UnknownIdentifier
  /\ calls[1].log[1].args.identifier = UnknownIdentifier
  /\ calls[1].pc = "resolved" /\ calls[1].result = <<TRUE>>

\* C10 as claimed: the start save passes to the bridge is never later than the
\* end it passes.
C10_SaveEndNotBeforeStart ==
  \A c \in Slots :
    calls[c].op = "save" =>
      NewDate(calls[c].log[1].args.start) <= NewDate(calls[c].log[1].args.end)

\* C10 as amended: given both, start and end go to the bridge as given; given
\* one, it is both the start and the end; given neither, both are read from
\* the clock, start first; whenever one is missing the start is not later
\* than the end (the clock not running backwards between the two readings).
C10_SaveDatesDefaulted ==
  \A c \in Slots :
    calls[c].op = "save" =>
      LET start == OptionOf(calls[c].args.options, "start")
          end == OptionOf(calls[c].args.options, "end")
          sent == calls[c].log[1].args IN
      /\ Len(calls[c].log) = 1
      /\ start # <<>> => sent.start = toISOString(start[1])
      /\ end # <<>> => sent.end = toISOString(end[1])
      /\ (start # <<>> /\ end = <<>>) => sent.end = toISOString(start[1])
      /\ (start = <<>> /\ end # <<>>) => sent.start = toISOString(end[1])
      /\ (start = <<>> \/ end = <<>>) => NewDate(sent.start) <= NewDate(sent.end)

\* save with only options.end given: the bridge got it as start and as end
C10_Witness ==
  /\ calls[1].op = "save"
  /\ OptionOf(calls[1].args.options, "start") = <<>>
  /\ OptionOf(calls[1].args.options, "end") = <<0>>
  /\ calls[1].log[1].args.start = toISOString(0)
  /\ calls[1].log[1].args.end = toISOString(0)
  /\ calls[1].pc = "resolved"

\* ------------------------------------------------------------ claims on HookSpec
\* every bridge call made for the effect has settled: init() has finished or
\* rejected, on() and getLastSample() have settled, and the bridge has
\* processed every stopObserving
EffectSettled ==
  /\ \/ effect.pc = "rejected"
     \/ /\ effect.pc = "awaitOn"
        /\ \A c \in {OnSlot, SampleSlot} : calls[c].pc \in {"resolved", "rejected"}
  /\ stopsHandled[OnSlot] = Len(stops[OnSlot])

\* C11: for every run of the effect and every interleaving of its cleanup with
\* the bridge's answers, once the cleanup has run and every bridge call of the
\* effect has settled, the listener the effect registered is off the emitter
\* and, if on() obtained a queryId, stopObserving has been called with it
C11_CleanupReleasesSubscription ==
  (effect.cleanedUp /\ EffectSettled) =>
     /\ OnSlot \notin listeners
     /\ calls[OnSlot].pc = "resolved" =>
          \E i \in DOMAIN stops[OnSlot] : stops[OnSlot][i] = calls[OnSlot].queryId

\* the cleanup ran while init() was still awaiting; on() resolved afterwards,
\* everything has settled, and the effect's listener and observer query are
\* still registered
C11_Witness ==
  /\ effect.cleanedUp /\ EffectSettled
  /\ calls[OnSlot].pc = "resolved"
  /\ unsubCalls[OnSlot] = 0
  /\ OnSlot \in listeners
  /\ calls[OnSlot].queryId \in bridgeQueries
  /\ stops[OnSlot] = <<>>

====
